---- MODULE Spec2Model ----
(***************************************************************************)
(* Model of list-all-transactions (src/list-all-transactions/src/main.rs): *)
(* the normalisation of the raw duplicated-transaction records, the mint   *)
(* and send aggregation tables, and the report emitted from them.          *)
(*                                                                         *)
(* A Rust String is modelled as a sequence of one-character strings, so    *)
(* that parsing, trimming, splitting and ordering are computed character   *)
(* by character as the code does.  A BTreeMap is a function with a finite  *)
(* domain, iterated in ascending key order.  All amounts of the model stay *)
(* far below 2^64: overflow of the u64 additions is outside the model.     *)
(***************************************************************************)
EXTENDS Integers, Sequences, FiniteSets, TLC

(***************************************************************************)
(* Strings                                                                 *)
(***************************************************************************)

\* The characters of the model in ascending byte order (the order of u8,
\* which is the order of Rust's `str`).
Ascii ==
    << " ", "+", ",", "-",
       "0", "1", "2", "3", "4", "5", "6", "7", "8", "9", ":",
       "A", "B", "C", "D", "E", "F",
       "a", "b", "c", "d", "e", "f", "k", "l", "m", "n", "o", "r", "s", "t", "u",
       "x", "y",
       "{", "}" >>

CharOrd(c) ==
    CHOOSE i \in 1..Len(Ascii) : Ascii[i] = c

\* Ord for str: lexicographic by byte, a proper prefix is smaller.
RECURSIVE StrLess(_, _)
StrLess(a, b) ==
    IF b = <<>> THEN FALSE
    ELSE IF a = <<>> THEN TRUE
    ELSE IF Head(a) = Head(b) THEN StrLess(Tail(a), Tail(b))
    ELSE CharOrd(Head(a)) < CharOrd(Head(b))

DecDigits ==
    << "0", "1", "2", "3", "4", "5", "6", "7", "8", "9" >>

IsDigit(c) ==
    \E i \in 1..Len(DecDigits) : DecDigits[i] = c

DigitVal(c) ==
    (CHOOSE i \in 1..Len(DecDigits) : DecDigits[i] = c) - 1

Ok(v) ==
    [ok |-> TRUE, v |-> v]

Err ==
    [ok |-> FALSE, v |-> 0]

RECURSIVE DigitsValue(_, _)
DigitsValue(s, acc) ==
    IF s = <<>> THEN acc
    ELSE DigitsValue(Tail(s), acc * 10 + DigitVal(Head(s)))

\* str::parse::<u64>: an optional leading "+", then one or more decimal
\* digits; no sign "-", no blanks, not empty.
ParseU64(s) ==
    LET body == IF s # <<>> /\ Head(s) = "+" THEN Tail(s) ELSE s
    IN  IF body = <<>> \/ \E i \in 1..Len(body) : ~IsDigit(body[i])
        THEN Err
        ELSE Ok(DigitsValue(body, 0))

IsBrace(c) ==
    c = "{" \/ c = "}"

RECURSIVE TrimStart(_)
TrimStart(s) ==
    IF s # <<>> /\ IsBrace(Head(s)) THEN TrimStart(Tail(s)) ELSE s

RECURSIVE TrimEnd(_)
TrimEnd(s) ==
    IF s # <<>> /\ IsBrace(s[Len(s)]) THEN TrimEnd(SubSeq(s, 1, Len(s) - 1)) ELSE s

\* str::trim_matches(|x| x == '{' || x == '}')
TrimBraces(s) ==
    TrimEnd(TrimStart(s))

\* str::split(','): the pieces between the commas, empty pieces included;
\* always at least one piece.
RECURSIVE SplitComma(_, _)
SplitComma(s, cur) ==
    IF s = <<>> THEN << cur >>
    ELSE IF Head(s) = "," THEN << cur >> \o SplitComma(Tail(s), <<>>)
    ELSE SplitComma(Tail(s), Append(cur, Head(s)))

\* value.height.trim_matches(..).split(',').map(|x| x.parse().unwrap()).collect()
ParseHeights(s) ==
    LET pieces == SplitComma(TrimBraces(s), <<>>)
        parsed == [i \in 1..Len(pieces) |-> ParseU64(pieces[i])]
    IN  IF \E i \in 1..Len(pieces) : ~parsed[i].ok
        THEN Err
        ELSE Ok([i \in 1..Len(pieces) |-> parsed[i].v])

HexDigits ==
    << "0", "1", "2", "3", "4", "5", "6", "7", "8", "9",
       "a", "b", "c", "d", "e", "f" >>

HexUpper ==
    << "0", "1", "2", "3", "4", "5", "6", "7", "8", "9",
       "A", "B", "C", "D", "E", "F" >>

IsHex(c) ==
    \E i \in 1..Len(HexDigits) : HexDigits[i] = c \/ HexUpper[i] = c

HexVal(c) ==
    (CHOOSE i \in 1..Len(HexDigits) : HexDigits[i] = c \/ HexUpper[i] = c) - 1

\* hex::decode(&value.hash[2..]): the first two characters are dropped (a
\* string shorter than two panics), the rest must be an even number of
\* hexadecimal digits.
DecodeHash(s) ==
    IF Len(s) < 2 THEN Err
    ELSE LET h == SubSeq(s, 3, Len(s))
         IN  IF Len(h) % 2 # 0 \/ \E i \in 1..Len(h) : ~IsHex(h[i])
             THEN Err
             ELSE Ok([i \in 1..(Len(h) \div 2) |->
                         HexVal(h[2 * i - 1]) * 16 + HexVal(h[2 * i])])

\* NaiveDateTime::parse_from_str(s, "%Y-%m-%d %H:%M:%S") on the zero-padded
\* form YYYY-MM-DD HH:MM:SS: the separators in place, digits elsewhere and
\* every field in range (seconds up to 60, a leap second).  The lengths of
\* the months are not modelled.
ParseTime(s) ==
    LET seps == [i \in {5, 8, 11, 14, 17} |->
                    IF i \in {5, 8} THEN "-" ELSE IF i = 11 THEN " " ELSE ":"]
        num(i, j) == DigitsValue(SubSeq(s, i, j), 0)
    IN  IF Len(s) # 19 THEN Err
        ELSE IF \E i \in 1..19 : IF i \in DOMAIN seps THEN s[i] # seps[i]
                                 ELSE ~IsDigit(s[i])
        THEN Err
        ELSE IF /\ num(6, 7) \in 1..12
                /\ num(9, 10) \in 1..31
                /\ num(12, 13) \in 0..23
                /\ num(15, 16) \in 0..59
                /\ num(18, 19) \in 0..60
        THEN Ok(<< num(1, 4), num(6, 7), num(9, 10),
                   num(12, 13), num(15, 16), num(18, 19) >>)
        ELSE Err

(***************************************************************************)
(* Records                                                                 *)
(***************************************************************************)

\* The two methods the tables act on.  A method is only ever compared, so
\* it is kept as one string.
TokensMint ==
    "tokens.mint"

LedgerSend ==
    "ledger.send"

\* A JSON text, as serde_json reads it: not JSON at all (valid = FALSE), or
\* an object whose members are strings (t = "str", s) or numbers
\* (t = "num", n).
JStr(s) ==
    [t |-> "str", s |-> s, n |-> 0]

JNum(n) ==
    [t |-> "num", s |-> <<>>, n |-> n]

EmptyMap ==
    [k \in {} |-> 0]

NotJson ==
    [valid |-> FALSE, members |-> EmptyMap]

JObject(members) ==
    [valid |-> TRUE, members |-> members]

\* Option<String>
None ==
    [some |-> FALSE, text |-> NotJson]

Some(text) ==
    [some |-> TRUE, text |-> text]

\* impl From<RawDuplicatedTransaction> for DuplicatedTransaction: every
\* field is parsed and unwrapped; any failure panics.
From(value) ==
    LET orig_time == ParseTime(value.orig_time)
        max_time == ParseTime(value.max_time)
        heights == ParseHeights(value.height)
        hash == DecodeHash(value.hash)
        neighborhood == ParseU64(value.neighborhood)
    IN  IF orig_time.ok /\ max_time.ok /\ heights.ok /\ hash.ok /\ neighborhood.ok
        THEN Ok([orig_time |-> orig_time.v,
                 max_time |-> max_time.v,
                 method |-> value.method,
                 heights |-> heights.v,
                 hash |-> hash.v,
                 argument |-> value.argument,
                 neighborhood |-> neighborhood.v])
        ELSE Err

(***************************************************************************)
(* BTreeMap                                                                *)
(***************************************************************************)

\* map.entry(k).or_default(): the map with k present, at the default d when
\* it was absent.
OrDefault(m, k, d) ==
    IF k \in DOMAIN m THEN m
    ELSE [x \in DOMAIN m \cup {k} |-> IF x = k THEN d ELSE m[x]]

\* Mutant of AddTo: the amount is stored, not added (`=` for `+=`).
SetTo(m, k, v) ==
    [OrDefault(m, k, 0) EXCEPT ![k] = v]

\* *map.entry(k).or_default() += v
AddTo(m, k, v) ==
    [OrDefault(m, k, 0) EXCEPT ![k] = @ + v]

\* The first key of a BTreeMap<String, _> in iteration order.
FirstStr(S) ==
    CHOOSE x \in S : \A y \in S \ {x} : StrLess(x, y)

RECURSIVE SortedStrs(_)
SortedStrs(S) ==
    IF S = {} THEN <<>>
    ELSE LET x == FirstStr(S) IN << x >> \o SortedStrs(S \ {x})

\* Mutant of FirstU64: the heights are visited from the largest down.
LastU64(S) ==
    CHOOSE x \in S : \A y \in S : x >= y

\* The first key of a BTreeMap<u64, _> in iteration order.
FirstU64(S) ==
    CHOOSE x \in S : \A y \in S : x <= y

RECURSIVE SortedU64s(_)
SortedU64s(S) ==
    IF S = {} THEN <<>>
    ELSE LET x == FirstU64(S) IN << x >> \o SortedU64s(S \ {x})

\* Ord for (String, String): by the first component, then by the second.
PairLess(p, q) ==
    \/ StrLess(p[1], q[1])
    \/ p[1] = q[1] /\ StrLess(p[2], q[2])

\* The first key of a BTreeMap<(String, String), _> in iteration order.
FirstPair(S) ==
    CHOOSE x \in S : \A y \in S \ {x} : PairLess(x, y)

RECURSIVE SortedPairs(_)
SortedPairs(S) ==
    IF S = {} THEN <<>>
    ELSE LET x == FirstPair(S) IN << x >> \o SortedPairs(S \ {x})

(***************************************************************************)
(* The aggregation tables                                                  *)
(***************************************************************************)

\* serde_json::from_str::<BTreeMap<String, String>>: an object all of whose
\* members are strings.
DecodeMintArgument(text) ==
    IF text.valid /\ \A k \in DOMAIN text.members : text.members[k].t = "str"
    THEN Ok([k \in DOMAIN text.members |-> text.members[k].s])
    ELSE Err

KeyFrom ==
    << "f", "r", "o", "m" >>

KeyTo ==
    << "t", "o" >>

KeyAmount ==
    << "a", "m", "o", "u", "n", "t" >>

\* serde_json::from_str::<LedgerSendArgument>: an object with the strings
\* from and to and the unsigned number amount; other members are ignored.
DecodeSendArgument(text) ==
    IF /\ text.valid
       /\ {KeyFrom, KeyTo, KeyAmount} \subseteq DOMAIN text.members
       /\ text.members[KeyFrom].t = "str"
       /\ text.members[KeyTo].t = "str"
       /\ text.members[KeyAmount].t = "num"
       /\ text.members[KeyAmount].n >= 0
    THEN Ok([from |-> text.members[KeyFrom].s,
             to |-> text.members[KeyTo].s,
             amount |-> text.members[KeyAmount].n])
    ELSE Err

\* Mutant of DuplicateHeights: the last height is dropped, not the first
\* (&entry.heights[..len - 1]).
AllButLastHeight(heights) ==
    SubSeq(heights, 1, Len(heights) - 1)

\* Mutant of DuplicateHeights: no height is dropped (&entry.heights[..]).
AllHeights(heights) ==
    heights

\* &entry.heights[1..]: the heights after the first.
DuplicateHeights(heights) ==
    SubSeq(heights, 2, Len(heights))

\* The iterations of the nested loops of TransposedMintTable::insert, in
\* order: every address of the argument (ascending), and for each every
\* height of `heights`.
MintIterations(argument, heights) ==
    LET addresses == SortedStrs(DOMAIN argument)
        n == Len(heights)
    IN  [i \in 1..(Len(addresses) * n) |->
            << addresses[((i - 1) \div n) + 1], heights[((i - 1) % n) + 1] >>]

\* The loop body, iteration by iteration: the entry of the height is
\* created, the amount is parsed (a panic leaves the table as it is then),
\* and the amount is added under the address.
RECURSIVE MintLoop(_, _, _)
MintLoop(table, argument, iterations) ==
    IF iterations = <<>> THEN Ok(table)
    ELSE LET address == iterations[1][1]
             height == iterations[1][2]
             inner == OrDefault(table, height, EmptyMap)
             amount == ParseU64(argument[address])
         IN  IF ~amount.ok THEN [ok |-> FALSE, v |-> inner]
             ELSE MintLoop([inner EXCEPT ![height] = AddTo(@, address, amount.v)],
                           argument, Tail(iterations))

\* TransposedMintTable::insert: the table after the call, and whether the
\* call returned (ok) or panicked.
MintInsert(table, entry) ==
    IF entry.method # TokensMint THEN Ok(table)
    ELSE IF ~entry.argument.some THEN [ok |-> FALSE, v |-> table]
    ELSE LET argument == DecodeMintArgument(entry.argument.text)
         IN  IF ~argument.ok THEN [ok |-> FALSE, v |-> table]
             ELSE MintLoop(table, argument.v,
                           MintIterations(argument.v, DuplicateHeights(entry.heights)))

\* Mutant of SendInsert: the amount is added once per duplicate height, as
\* the mint table does.
RECURSIVE AddTimes(_, _, _, _)
AddTimes(table, key, amount, n) ==
    IF n = 0 THEN table
    ELSE AddTimes(AddTo(table, key, amount), key, amount, n - 1)

SendInsertPerHeight(table, entry) ==
    IF entry.method # LedgerSend THEN Ok(table)
    ELSE IF ~entry.argument.some THEN [ok |-> FALSE, v |-> table]
    ELSE LET argument == DecodeSendArgument(entry.argument.text)
         IN  IF ~argument.ok THEN [ok |-> FALSE, v |-> table]
             ELSE Ok(AddTimes(table, << argument.v.from, argument.v.to >>,
                              argument.v.amount, Len(entry.heights) - 1))

\* TransposedSendTable::insert
SendInsert(table, entry) ==
    IF entry.method # LedgerSend THEN Ok(table)
    ELSE IF ~entry.argument.some THEN [ok |-> FALSE, v |-> table]
    ELSE LET argument == DecodeSendArgument(entry.argument.text)
         IN  IF ~argument.ok THEN [ok |-> FALSE, v |-> table]
             ELSE Ok(AddTo(table, << argument.v.from, argument.v.to >>,
                           argument.v.amount))

(***************************************************************************)
(* The report                                                              *)
(***************************************************************************)

RECURSIVE ToDigits(_)
ToDigits(n) ==
    IF n = 0 THEN <<>>
    ELSE Append(ToDigits(n \div 10), DecDigits[(n % 10) + 1])

\* u64::to_string
U64ToString(n) ==
    IF n = 0 THEN << "0" >> ELSE ToDigits(n)

\* aliases.get(&address).cloned().unwrap_or_default()
AliasOrDefault(aliases, address) ==
    IF address \in DOMAIN aliases THEN aliases[address] ELSE <<>>

\* aliases.get(from).map(|a| format!(" ({a})")).unwrap_or("".to_string())
AliasSuffix(aliases, address) ==
    IF address \in DOMAIN aliases
    THEN << " ", "(" >> \o aliases[address] \o << ")" >>
    ELSE <<>>

\* The entries of one height of the mint table, in iteration order.
InnerEntries(height, inner) ==
    LET addresses == SortedStrs(DOMAIN inner)
    IN  [i \in 1..Len(addresses) |->
            [height |-> height, address |-> addresses[i],
             amount |-> inner[addresses[i]]]]

\* for (height, entry) in mint_table.0 { for (address, amount) in entry ..:
\* the (height, address, amount) triples in the order the loops visit them.
RECURSIVE MintEntriesFrom(_, _)
MintEntriesFrom(table, heights) ==
    IF heights = <<>> THEN <<>>
    ELSE InnerEntries(heights[1], table[heights[1]])
             \o MintEntriesFrom(table, Tail(heights))

MintEntries(table) ==
    MintEntriesFrom(table, SortedU64s(DOMAIN table))

\* The record written for one entry:
\* [height.to_string(), address, alias, amount.to_string()]
CsvRecord(aliases, e) ==
    << U64ToString(e.height), e.address, AliasOrDefault(aliases, e.address),
       U64ToString(e.amount) >>

\* Mutant of TotalsOf: the total of an address is its amount at the last
\* height visited (`=` for `+=`).
RECURSIVE TotalsLastOnly(_, _, _)
TotalsLastOnly(totals, aliases, entries) ==
    IF entries = <<>> THEN totals
    ELSE TotalsLastOnly([OrDefault(totals, entries[1].address, 0)
                             EXCEPT ![entries[1].address] = entries[1].amount],
                        aliases, Tail(entries))

\* Mutant of TotalsOf: the totals are kept under the alias of an address
\* that has one (totals.entry(alias) for totals.entry(address)).
RECURSIVE TotalsByAlias(_, _, _)
TotalsByAlias(totals, aliases, entries) ==
    IF entries = <<>> THEN totals
    ELSE LET address == entries[1].address
             key == IF address \in DOMAIN aliases THEN aliases[address] ELSE address
         IN  TotalsByAlias([OrDefault(totals, key, 0) EXCEPT ![key] = @ + entries[1].amount],
                           aliases, Tail(entries))

\* The totals after the loop has visited `entries`:
\* *totals.entry(address.clone()).or_default() += amount
RECURSIVE TotalsOf(_, _, _)
TotalsOf(totals, aliases, entries) ==
    IF entries = <<>> THEN totals
    ELSE TotalsOf(AddTo(totals, entries[1].address, entries[1].amount),
                  aliases, Tail(entries))

\* The records written to output_csv by the loop.
CsvRecords(aliases, entries) ==
    [i \in 1..Len(entries) |-> CsvRecord(aliases, entries[i])]

\* totals.iter().map(|(address, total)| SummaryRow { .. }).collect()
SummaryRows(totals, aliases) ==
    LET addresses == SortedStrs(DOMAIN totals)
    IN  [i \in 1..Len(addresses) |->
            [address |-> addresses[i],
             alias |-> AliasOrDefault(aliases, addresses[i]),
             total |-> totals[addresses[i]]]]

\* totals.values().sum::<u64>()
RECURSIVE SumRows(_)
SumRows(rows) ==
    IF rows = <<>> THEN 0 ELSE rows[1].total + SumRows(Tail(rows))

\* One line of the send listing: "{from}{alias} => {to}{alias}    ++ {amount}"
SendLine(aliases, key, amount) ==
    [kind |-> "send",
     body |-> [from |-> key[1], from_alias |-> AliasSuffix(aliases, key[1]),
               to |-> key[2], to_alias |-> AliasSuffix(aliases, key[2]),
               amount |-> U64ToString(amount)]]

\* for ((from, to), amount) in send_table.0.iter()
SendLines(table, aliases) ==
    LET keys == SortedPairs(DOMAIN table)
    IN  [i \in 1..Len(keys) |-> SendLine(aliases, keys[i], table[keys[i]])]

Line(kind, body) ==
    [kind |-> kind, body |-> body]

\* The standard streams of a process: println! writes a line to stdout,
\* eprintln! (and the panic message) to stderr.
NoOutput ==
    [stdout |-> <<>>, stderr |-> <<>>]

Println(io, line) ==
    [io EXCEPT !.stdout = Append(@, line)]

\* Mutant of Eprintln: the line goes to stdout (println! for eprintln!).
EprintlnToStdout(io, line) ==
    [io EXCEPT !.stdout = Append(@, line)]

Eprintln(io, line) ==
    [io EXCEPT !.stderr = Append(@, line)]

\* A panic of the main thread: the message goes to stderr.
Panic(io) ==
    [io EXCEPT !.stderr = Append(@, Line("panic", <<>>))]

(***************************************************************************)
(* The inputs                                                              *)
(***************************************************************************)

\* The most records the transactions file holds.
MaxRecords ==
    2

\* The model carries two runs of the program side by side, on the same
\* transactions file and each with its own aliases file.
Runs ==
    {"first", "second"}

AddrA ==
    << "a" >>

AddrAB ==
    << "a", "b" >>

GoodTime ==
    << "2", "0", "2", "3", "-", "0", "5", "-", "0", "1", " ",
       "1", "2", ":", "0", "0", ":", "0", "0" >>

BadTime ==
    << "2", "0", "2", "3", "-", "1", "3", "-", "0", "1", " ",
       "1", "2", ":", "0", "0", ":", "0", "0" >>

GoodHash ==
    << "0", "x", "a", "b", "1", "2" >>

BadHash ==
    << "0", "x", "a", "b", "c" >>

\* The height lists "{1}", "{1,2}", "{2,1}", "{1,1}", "{1,2,3}" and "{1,2,2}".
OneHeight ==
    << "{", "1", "}" >>

TwoHeights ==
    << "{", "1", ",", "2", "}" >>

TwoHeightsDescending ==
    << "{", "2", ",", "1", "}" >>

SameHeightTwice ==
    << "{", "1", ",", "1", "}" >>

ThreeHeights ==
    << "{", "1", ",", "2", ",", "3", "}" >>

LaterHeightTwice ==
    << "{", "1", ",", "2", ",", "2", "}" >>

\* "{1, 2}": the blank is not trimmed, so " 2" is no number.
BadHeights ==
    << "{", "1", ",", " ", "2", "}" >>

\* {"a": "5"}
MintToA ==
    Some(JObject((AddrA :> JStr(<< "5" >>))))

\* {"a": "5", "ab": "30"}
MintToBoth ==
    Some(JObject((AddrA :> JStr(<< "5" >>)) @@ (AddrAB :> JStr(<< "3", "0" >>))))

\* {"a": "5", "ab": "x"}
MintNotANumber ==
    Some(JObject((AddrA :> JStr(<< "5" >>)) @@ (AddrAB :> JStr(<< "x" >>))))

\* {"from": .., "to": .., "amount": ..}
SendArgument(from, to, amount) ==
    Some(JObject((KeyFrom :> JStr(from)) @@ (KeyTo :> JStr(to))
                     @@ (KeyAmount :> JNum(amount))))

Raw(method, height, argument) ==
    [orig_time |-> GoodTime, max_time |-> GoodTime, method |-> method,
     height |-> height, hash |-> GoodHash, argument |-> argument,
     neighborhood |-> << "1" >>]

MintRecords ==
    { Raw(TokensMint, TwoHeights, MintToA),
      Raw(TokensMint, ThreeHeights, MintToBoth),
      Raw(TokensMint, LaterHeightTwice, MintToA),
      Raw(TokensMint, TwoHeightsDescending, MintToBoth),
      Raw(TokensMint, SameHeightTwice, MintToA),
      Raw(TokensMint, OneHeight, MintToA),
      Raw(TokensMint, OneHeight, MintNotANumber),
      Raw(TokensMint, TwoHeights, MintNotANumber),
      Raw(TokensMint, TwoHeights, None),
      Raw(TokensMint, TwoHeights, Some(NotJson)) }

SendRecords ==
    { Raw(LedgerSend, OneHeight, SendArgument(AddrA, AddrAB, 10)),
      Raw(LedgerSend, TwoHeights, SendArgument(AddrA, AddrAB, 15)),
      Raw(LedgerSend, TwoHeights, SendArgument(AddrAB, AddrA, 10)),
      Raw(LedgerSend, TwoHeights, None),
      Raw(LedgerSend, TwoHeights, MintToA) }

OtherRecords ==
    { Raw("unknown.op", TwoHeights, None),
      Raw("unknown.op", TwoHeights, Some(NotJson)) }

MalformedRecords ==
    { [Raw(TokensMint, TwoHeights, MintToA) EXCEPT !.orig_time = BadTime],
      [Raw(TokensMint, TwoHeights, MintToA) EXCEPT !.max_time = BadTime],
      [Raw(TokensMint, TwoHeights, MintToA) EXCEPT !.height = BadHeights],
      [Raw(TokensMint, TwoHeights, MintToA) EXCEPT !.hash = BadHash],
      [Raw(TokensMint, TwoHeights, MintToA) EXCEPT !.neighborhood = << "x" >>] }

RawRecords ==
    MintRecords \cup SendRecords \cup OtherRecords \cup MalformedRecords

\* The aliases file: not given, or {"a": "A"}.
AliasFiles ==
    { [some |-> FALSE, map |-> EmptyMap],
      [some |-> TRUE, map |-> (AddrA :> << "A" >>)] }

(***************************************************************************)
(* The program                                                             *)
(***************************************************************************)

VARIABLES
    raw,            \* the records of the transactions file
    pc,             \* where main is
    transactions,   \* the normalised records
    done,           \* how many of them the loop has gone through
    aliases,        \* per run, the alias map
    mint_table,
    send_table,
    output_csv,     \* per run, the records written to the csv writer
    totals,         \* per run
    summary,        \* per run
    io,             \* per run, what was written to stdout and to stderr
    file            \* per run, what was written to the output file

vars ==
    << raw, pc, transactions, done, aliases, mint_table,
       send_table, output_csv, totals, summary, io, file >>

RawFiles ==
    UNION { [1..n -> RawRecords] : n \in 0..MaxRecords }

Init ==
    /\ raw \in RawFiles
    /\ pc = "args"
    /\ transactions = <<>>
    /\ done = 0
    /\ aliases = [r \in Runs |-> EmptyMap]
    /\ mint_table = EmptyMap
    /\ send_table = EmptyMap
    /\ output_csv = [r \in Runs |-> <<>>]
    /\ totals = [r \in Runs |-> EmptyMap]
    /\ summary = [r \in Runs |-> <<>>]
    /\ io = [r \in Runs |-> NoOutput]
    /\ file = [r \in Runs |-> <<>>]

\* eprintln!("args: {:?}", Args::parse())
PrintArgs ==
    /\ pc = "args"
    /\ io' = [r \in Runs |-> Eprintln(io[r], Line("args", <<>>))]
    /\ pc' = "load"
    /\ UNCHANGED << raw, transactions, done, aliases,
                    mint_table, send_table, output_csv, totals, summary, file >>

\* The transactions are read and every record is normalised; the first
\* record that does not parse panics.
LoadTransactions ==
    /\ pc = "load"
    /\ LET normalised == [i \in 1..Len(raw) |-> From(raw[i])]
       IN  IF \A i \in 1..Len(raw) : normalised[i].ok
           THEN /\ transactions' = [i \in 1..Len(raw) |-> normalised[i].v]
                /\ pc' = "aliases"
                /\ io' = io
           ELSE /\ transactions' = transactions
                /\ pc' = "failed"
                /\ io' = [r \in Runs |-> Panic(io[r])]
    /\ UNCHANGED << raw, done, aliases, mint_table,
                    send_table, output_csv, totals, summary, file >>

\* The alias map: the aliases file's, or empty when none is given.
LoadAliases ==
    /\ pc = "aliases"
    /\ \E alias_file \in [Runs -> AliasFiles] :
           aliases' = [r \in Runs |->
                          IF alias_file[r].some THEN alias_file[r].map
                          ELSE EmptyMap]
    /\ pc' = "aggregate"
    /\ UNCHANGED << raw, transactions, done, mint_table,
                    send_table, output_csv, totals, summary, io, file >>

\* The record the loop `for t in transactions` is at.
Current ==
    transactions[done + 1]

\* if t.method == "tokens.mint" { mint_table.insert(t); }
InsertMint ==
    /\ pc = "aggregate"
    /\ done < Len(transactions)
    /\ Current.method = TokensMint
    /\ LET res == MintInsert(mint_table, Current)
       IN  /\ mint_table' = res.v
           /\ IF res.ok
              THEN /\ done' = done + 1
                   /\ UNCHANGED << pc, io >>
              ELSE /\ pc' = "failed"
                   /\ io' = [r \in Runs |-> Panic(io[r])]
                   /\ UNCHANGED done
    /\ UNCHANGED << raw, transactions, aliases, send_table,
                    output_csv, totals, summary, file >>

\* else if t.method == "ledger.send" { eprintln!("..."); send_table.insert(t); }
InsertSend ==
    /\ pc = "aggregate"
    /\ done < Len(transactions)
    /\ Current.method # TokensMint
    /\ Current.method = LedgerSend
    /\ LET res == SendInsert(send_table, Current)
           printed == [r \in Runs |-> Eprintln(io[r], Line("...", <<>>))]
       IN  /\ send_table' = res.v
           /\ IF res.ok
              THEN /\ done' = done + 1
                   /\ io' = printed
                   /\ UNCHANGED pc
              ELSE /\ pc' = "failed"
                   /\ io' = [r \in Runs |-> Panic(printed[r])]
                   /\ UNCHANGED done
    /\ UNCHANGED << raw, transactions, aliases, mint_table,
                    output_csv, totals, summary, file >>

\* Mutant of SkipOther: the loop unwraps the argument of every record before
\* it looks at the method, and panics on a record without one.
SkipOtherUnwrapping ==
    /\ pc = "aggregate"
    /\ done < Len(transactions)
    /\ Current.method # TokensMint
    /\ Current.method # LedgerSend
    /\ IF Current.argument.some
       THEN /\ done' = done + 1
            /\ UNCHANGED << pc, io >>
       ELSE /\ pc' = "failed"
            /\ io' = [r \in Runs |-> Panic(io[r])]
            /\ UNCHANGED done
    /\ UNCHANGED << raw, transactions, aliases, mint_table, send_table,
                    output_csv, totals, summary, file >>

\* A record of any other method: the loop goes on to the next one.
SkipOther ==
    /\ pc = "aggregate"
    /\ done < Len(transactions)
    /\ Current.method # TokensMint
    /\ Current.method # LedgerSend
    /\ done' = done + 1
    /\ UNCHANGED << raw, pc, transactions, aliases,
                    mint_table, send_table, output_csv, totals, summary, io, file >>

\* The loop over the mint table: one csv record per entry, and the totals.
EmitCsv ==
    /\ pc = "aggregate"
    /\ done = Len(transactions)
    /\ output_csv' = [r \in Runs |-> CsvRecords(aliases[r], MintEntries(mint_table))]
    /\ totals' = [r \in Runs |-> TotalsOf(EmptyMap, aliases[r], MintEntries(mint_table))]
    /\ pc' = "summary"
    /\ UNCHANGED << raw, transactions, done, aliases,
                    mint_table, send_table, summary, io, file >>

BuildSummary ==
    /\ pc = "summary"
    /\ summary' = [r \in Runs |-> SummaryRows(totals[r], aliases[r])]
    /\ pc' = "write"
    /\ UNCHANGED << raw, transactions, done, aliases,
                    mint_table, send_table, output_csv, totals, io, file >>

\* if let Some(x) = output { std::fs::write(x, data) }: an output file is
\* named on the command line.
WriteFile ==
    /\ pc = "write"
    /\ file' = [r \in Runs |-> Append(file[r], Line("csv", output_csv[r]))]
    /\ pc' = "report"
    /\ UNCHANGED << raw, transactions, done, aliases,
                    mint_table, send_table, output_csv, totals, summary, io >>

\* else { println!("{}", data) }: no output file is named.
WriteStdout ==
    /\ pc = "write"
    /\ io' = [r \in Runs |-> Println(io[r], Line("csv", output_csv[r]))]
    /\ pc' = "report"
    /\ UNCHANGED << raw, transactions, done, aliases,
                    mint_table, send_table, output_csv, totals, summary, file >>

\* The summary table and the grand total.
PrintSummary ==
    /\ pc = "report"
    /\ io' = [r \in Runs |->
                 Eprintln(Eprintln(Eprintln(io[r],
                     Line("# Summary", <<>>)),
                     Line("table", summary[r])),
                     Line("Total", U64ToString(SumRows(summary[r]))))]
    /\ pc' = "sends"
    /\ UNCHANGED << raw, transactions, done, aliases,
                    mint_table, send_table, output_csv, totals, summary, file >>

RECURSIVE EprintlnAll(_, _)
EprintlnAll(out, lines) ==
    IF lines = <<>> THEN out
    ELSE EprintlnAll(Eprintln(out, lines[1]), Tail(lines))

\* The listing of the send table.
PrintSends ==
    /\ pc = "sends"
    /\ io' = [r \in Runs |->
                 EprintlnAll(Eprintln(io[r], Line("Send txs:", <<>>)),
                             SendLines(send_table, aliases[r]))]
    /\ pc' = "done"
    /\ UNCHANGED << raw, transactions, done, aliases,
                    mint_table, send_table, output_csv, totals, summary, file >>

Next ==
    \/ PrintArgs
    \/ LoadTransactions
    \/ LoadAliases
    \/ InsertMint
    \/ InsertSend
    \/ SkipOther
    \/ EmitCsv
    \/ BuildSummary
    \/ WriteFile
    \/ WriteStdout
    \/ PrintSummary
    \/ PrintSends

Spec ==
    Init /\ [][Next]_vars

(***************************************************************************)
(* What the claims speak of                                                *)
(***************************************************************************)

\* A step of the loop `for t in transactions` is about to go through Current.
AtRecord ==
    pc = "aggregate" /\ done < Len(transactions)

\* The inner map at a height, empty when the height has no entry.
RowAt(table, h) ==
    IF h \in DOMAIN table THEN table[h] ELSE EmptyMap

\* The amount under a key, 0 when the key has no entry.
AmountAt(m, k) ==
    IF k \in DOMAIN m THEN m[k] ELSE 0

\* The heights at the positions after the first (heights[1:]).
LaterHeights(t) ==
    { t.heights[i] : i \in 2..Len(t.heights) }

\* How many positions after the first hold the height h.
Duplicates(t, h) ==
    Cardinality({ i \in 2..Len(t.heights) : t.heights[i] = h })

IsMint(t) ==
    t.method = TokensMint /\ t.argument.some
        /\ DecodeMintArgument(t.argument.text).ok

MintArgument(t) ==
    DecodeMintArgument(t.argument.text).v

\* The mint record t adds under (h, a).
AddsAt(t, h, a) ==
    IsMint(t) /\ a \in DOMAIN MintArgument(t) /\ Duplicates(t, h) > 0

\* The sum of the additions of the first n records under (h, a).
RECURSIVE MintSum(_, _, _)
MintSum(n, h, a) ==
    IF n = 0 THEN 0
    ELSE MintSum(n - 1, h, a)
             + (IF AddsAt(transactions[n], h, a)
                THEN Duplicates(transactions[n], h)
                         * ParseU64(MintArgument(transactions[n])[a]).v
                ELSE 0)

SeenHeights ==
    DOMAIN mint_table
        \cup UNION { { t.heights[i] : i \in 1..Len(t.heights) } :
                         t \in { transactions[i] : i \in 1..Len(transactions) } }

SeenAddresses ==
    UNION { DOMAIN mint_table[h] : h \in DOMAIN mint_table }
        \cup UNION { DOMAIN MintArgument(t) :
                         t \in { transactions[i] : i \in { j \in 1..Len(transactions) :
                                                              IsMint(transactions[j]) } } }

IsSend(t) ==
    t.method = LedgerSend /\ t.argument.some
        /\ DecodeSendArgument(t.argument.text).ok

SendKey(t) ==
    << DecodeSendArgument(t.argument.text).v.from,
       DecodeSendArgument(t.argument.text).v.to >>

SendAmount(t) ==
    DecodeSendArgument(t.argument.text).v.amount

\* The sum of the amounts of the send records among the first n with the key.
RECURSIVE SendSum(_, _)
SendSum(n, key) ==
    IF n = 0 THEN 0
    ELSE SendSum(n - 1, key)
             + (IF IsSend(transactions[n]) /\ SendKey(transactions[n]) = key
                THEN SendAmount(transactions[n])
                ELSE 0)

RECURSIVE SumOverHeights(_, _, _)
SumOverHeights(table, heights, a) ==
    IF heights = {} THEN 0
    ELSE LET h == CHOOSE x \in heights : TRUE
         IN  AmountAt(table[h], a) + SumOverHeights(table, heights \ {h}, a)

\* Some amount string of the mint record is no unsigned integer.
HasBadAmount(t) ==
    IsMint(t) /\ \E a \in DOMAIN MintArgument(t) : ~ParseU64(MintArgument(t)[a]).ok

Emitting ==
    pc \in {"summary", "write", "report", "sends", "done"}

\* The lines of the send listing on stderr.
SendListing(r) ==
    SelectSeq(io[r].stderr, LAMBDA l : l.kind = "send")

\* What a run reports apart from the aliases: the totals, and the csv
\* records, summary rows and send lines without their alias fields.
Numbers(r) ==
    [totals |-> totals[r],
     csv |-> [i \in 1..Len(output_csv[r]) |->
                 << output_csv[r][i][1], output_csv[r][i][2], output_csv[r][i][4] >>],
     summary |-> [i \in 1..Len(summary[r]) |->
                     << summary[r][i].address, summary[r][i].total >>],
     sends |-> [i \in 1..Len(SendListing(r)) |->
                   << SendListing(r)[i].body.from, SendListing(r)[i].body.to,
                      SendListing(r)[i].body.amount >>],
     written |-> << Len(io[r].stdout), Len(file[r]) >>]

\* The csv record p comes strictly before q by (height, address).
RecordBefore(p, q) ==
    \/ ParseU64(p[1]).v < ParseU64(q[1]).v
    \/ p[1] = q[1] /\ StrLess(p[2], q[2])

(***************************************************************************)
(* The claims                                                              *)
(***************************************************************************)

\* C1 as stated: going through a tokens.mint record leaves the mint table
\* at the record's first height heights[0] as it was.
C1_FirstHeightUntouched ==
    [][(AtRecord /\ Current.method = TokensMint)
          => RowAt(mint_table', Current.heights[1])
                 = RowAt(mint_table, Current.heights[1])]_vars

\* C1 amended: going through a tokens.mint record changes the mint table
\* only at heights held by a position after the first; the first height
\* heights[0] is left as it was unless it occurs again after the first.
C1_OnlyLaterHeights ==
    [][(AtRecord /\ Current.method = TokensMint)
          => \A h \in DOMAIN mint_table \cup DOMAIN mint_table'
                      \cup {Current.heights[1]} :
                 h \notin LaterHeights(Current)
                     => RowAt(mint_table', h) = RowAt(mint_table, h)]_vars

\* A mint record with heights [1, 2, 3] and addresses a and ab has been gone
\* through from an empty table: the heights 2 and 3 have both addresses,
\* height 1 has no entry.
C1_Witness ==
    /\ pc = "aggregate" /\ done = 1
    /\ transactions[1].method = TokensMint
    /\ transactions[1].heights = << 1, 2, 3 >>
    /\ DOMAIN mint_table = {2, 3}
    /\ DOMAIN mint_table[2] = {AddrA, AddrAB}
    /\ DOMAIN mint_table[3] = {AddrA, AddrAB}

\* C2: while the run has not failed, the mint table has an entry under
\* (h, a) exactly when some record gone through adds there, and the entry
\* is the sum, over those records and the positions i >= 1 holding h, of the
\* parsed amount of a; no height has an empty entry.
C2_MintTableIsSum ==
    pc # "failed" =>
        /\ \A h \in SeenHeights, a \in SeenAddresses :
               LET adds == \E i \in 1..done : AddsAt(transactions[i], h, a)
               IN  /\ (h \in DOMAIN mint_table /\ a \in DOMAIN mint_table[h]) <=> adds
                   /\ adds => mint_table[h][a] = MintSum(done, h, a)
        /\ \A h \in DOMAIN mint_table : DOMAIN mint_table[h] # {}

\* The mint records with heights [1, 2, 3] and {a: 5, ab: 30} (2 x 2
\* additions) and with heights [1, 2, 2] and {a: 5} (1 x 2 additions, both
\* at height 2) have been gone through.
C2_Witness ==
    /\ pc = "done" /\ done = 2
    /\ DOMAIN mint_table = {2, 3}
    /\ mint_table[2] = (AddrA :> 15) @@ (AddrAB :> 30)
    /\ mint_table[3] = (AddrA :> 5) @@ (AddrAB :> 30)

\* C3: while the run has not failed, the send table has an entry under
\* (from, to) exactly when some ledger.send record gone through has that
\* pair, and the entry is the sum of the amounts of those records, each
\* counted once whatever its heights.
C3_SendTableIsSum ==
    pc # "failed" =>
        LET keys == { SendKey(transactions[i]) :
                          i \in { j \in 1..done : IsSend(transactions[j]) } }
        IN  /\ DOMAIN send_table = keys
            /\ \A key \in keys : send_table[key] = SendSum(done, key)

\* Two send records from a to ab, of amounts 10 and 15 and with different
\* height lists, have been gone through: the entry is 25.
C3_Witness ==
    /\ pc = "done" /\ done = 2
    /\ transactions[1].heights # transactions[2].heights
    /\ DOMAIN send_table = { << AddrA, AddrAB >> }
    /\ send_table[<< AddrA, AddrAB >>] = 25

\* C4 as stated: going through a tokens.mint or ledger.send record with a
\* single height leaves the mint table, the send table and the totals as
\* they were.
C4_SingleHeightAddsNothing ==
    [][(AtRecord /\ Len(Current.heights) = 1
            /\ Current.method \in {TokensMint, LedgerSend})
          => /\ mint_table' = mint_table
             /\ send_table' = send_table
             /\ totals' = totals]_vars

\* C4 amended: going through a tokens.mint record with a single height
\* leaves the three tables as they were; going through a ledger.send record
\* with a single height leaves the mint table and the totals as they were
\* and, unless its argument fails to decode, adds its amount once to the
\* send table under (from, to).
C4_SingleHeight ==
    [][(AtRecord /\ Len(Current.heights) = 1)
          => /\ Current.method = TokensMint
                 => /\ mint_table' = mint_table
                    /\ send_table' = send_table
                    /\ totals' = totals
             /\ Current.method = LedgerSend
                 => /\ mint_table' = mint_table
                    /\ totals' = totals
                    /\ IF IsSend(Current)
                       THEN /\ DOMAIN send_table'
                                  = DOMAIN send_table \cup {SendKey(Current)}
                            /\ \A k \in DOMAIN send_table' :
                                   send_table'[k]
                                       = AmountAt(send_table, k)
                                             + (IF k = SendKey(Current)
                                                THEN SendAmount(Current) ELSE 0)
                       ELSE send_table' = send_table]_vars

\* A mint record and then a send record, each with the single height 1,
\* have been gone through: the mint table is empty, the send table is not.
C4_Witness ==
    /\ pc = "aggregate" /\ done = 2
    /\ transactions[1].method = TokensMint /\ transactions[1].heights = << 1 >>
    /\ transactions[2].method = LedgerSend /\ transactions[2].heights = << 1 >>
    /\ mint_table = EmptyMap
    /\ send_table[<< AddrA, AddrAB >>] = 10

\* C5: when the run is done, an address has a total exactly when it occurs
\* under some height of the mint table, and its total is the sum of its
\* amounts over all the heights.
C5_TotalsAreSums ==
    pc = "done" =>
        \A r \in Runs :
            /\ DOMAIN totals[r]
                   = UNION { DOMAIN mint_table[h] : h \in DOMAIN mint_table }
            /\ \A a \in DOMAIN totals[r] :
                   totals[r][a] = SumOverHeights(mint_table, DOMAIN mint_table, a)

\* The run is done with the address a under the two heights 1 and 2.
C5_Witness ==
    /\ pc = "done"
    /\ DOMAIN mint_table = {1, 2}
    /\ AddrA \in DOMAIN mint_table[1] /\ AddrA \in DOMAIN mint_table[2]
    /\ totals["first"][AddrA] = mint_table[1][AddrA] + mint_table[2][AddrA]
    /\ mint_table[1][AddrA] > 0

\* C6 as stated: a run whose input holds a tokens.mint record with an
\* amount string that is no unsigned integer fails: it never gets to emit
\* its report.
C6_BadAmountFails ==
    (\E i \in 1..Len(transactions) : HasBadAmount(transactions[i])) => ~Emitting

C8_OtherMethodsSkipped ==
    [][AtRecord
          => /\ Current.method \notin {TokensMint, LedgerSend}
                 => /\ pc' = "aggregate" /\ done' = done + 1
                    /\ mint_table' = mint_table
                    /\ send_table' = send_table
             /\ Current.method = TokensMint => send_table' = send_table
             /\ Current.method = LedgerSend => mint_table' = mint_table]_vars

\* After a mint record that filled the mint table, a record of another
\* method and without argument has been gone through.
C8_Witness ==
    /\ pc = "aggregate" /\ done = 2
    /\ transactions[1].method = TokensMint
    /\ transactions[2].method \notin {TokensMint, LedgerSend}
    /\ ~transactions[2].argument.some
    /\ mint_table # EmptyMap

\* C9: two runs on the same records, whatever their alias maps, agree on
\* the totals and on every csv record, summary row and send line apart from
\* the alias fields.  (Both runs read the same mint and send table: the
\* aggregation takes no alias map.)
C9_AliasesOnlyAnnotate ==
    Numbers("first") = Numbers("second")

\* Two runs with different alias maps are done, with a csv record and a
\* send line each, annotated differently.
C9_Witness ==
    /\ pc = "done"
    /\ aliases["first"] # aliases["second"]
    /\ output_csv["first"] # <<>>
    /\ output_csv["first"] # output_csv["second"]
    /\ SendListing("first") # <<>>
    /\ SendListing("first") # SendListing("second")

\* C10: the csv records are strictly ascending by (height, address) and
\* the lines of the send listing strictly ascending by (from, to).
C10_Ascending ==
    \A r \in Runs :
        /\ \A i \in 1..(Len(output_csv[r]) - 1) :
               RecordBefore(output_csv[r][i], output_csv[r][i + 1])
        /\ \A i \in 1..(Len(SendListing(r)) - 1) :
               PairLess(<< SendListing(r)[i].body.from, SendListing(r)[i].body.to >>,
                        << SendListing(r)[i + 1].body.from,
                           SendListing(r)[i + 1].body.to >>)

\* The send record from ab to a came before the one from a to ab in the
\* input, and the listing has the two lines, a's first.
C10_Witness ==
    /\ pc = "done" /\ done = 2
    /\ IsSend(transactions[1]) /\ SendKey(transactions[1]) = << AddrAB, AddrA >>
    /\ IsSend(transactions[2]) /\ SendKey(transactions[2]) = << AddrA, AddrAB >>
    /\ Len(SendListing("first")) = 2
    /\ SendListing("first")[1].body.from = AddrA

====
